---- MODULE Spec2Model ----
(***************************************************************************)
(* Model of grid_traversal.c: a Grid of blocked/free cells, the greedy     *)
(* planner solve_path and the random obstacle generator generate_blocked.  *)
(*                                                                         *)
(* Cells are pairs <<r, c>> with 0-based indices as in the C code.  The    *)
(* C arrays path_r / path_c are sequences here, so the C entry path_r[k]   *)
(* is path_r[k + 1] in the model.  g->blocked and visited are the sets of  *)
(* cells whose array entry is true.                                        *)
(***************************************************************************)
EXTENDS Integers, Sequences, FiniteSets

(* ------------------------------ bounds -------------------------------- *)

\* grids of every shape rows x cols with rows * cols <= MaxCells
MaxCells == 9
\* movement_points ranges over -1 .. MaxMP
MaxMP == 5
\* num_blocked of generate_blocked ranges over -1 .. MaxCount
MaxCount == 2
\* solve_path is called at most MaxCalls times on one grid
MaxCalls == 2

\* create_grid builds grids with rows * cols <= MaxCreateCells
MaxCreateCells == 4
\* from a blocked_list of at most MaxList entries
MaxList == 3

Budgets == (-1) .. MaxMP
Counts == (-1) .. MaxCount

(* ------------------------------ state --------------------------------- *)

VARIABLES
    rows, cols, blocked,          \* the Grid
    pc,                           \* "idle", "loop", "done", "crashed", "gen", "gen_done",
                                  \* "create", "created"
    printed,                      \* what the solve_path calls so far wrote to stdout
    heap,                         \* the live allocations of solve_path
    movement_points,              \* solve_path's argument
    visited, max_path_len, path_r, path_c, pathLen, unique_count,
    cr, cc, step,
    branch,                       \* the branch the last loop iteration took
    num_blocked, placed,          \* generate_blocked's argument (after the clamp) and counter
    entry_count, entry_blocked,   \* generate_blocked's argument and the grid, as passed in
    blocked_list, blocked_count,  \* create_grid's arguments
    create_i,                     \* the index i of create_grid's marking loop
    accessed                      \* the coordinates the last step of solve_path used as
                                  \* indices into g->blocked or visited

gridVars == <<rows, cols, blocked>>
solveVars == <<heap, movement_points, visited, max_path_len, path_r, path_c, pathLen,
               unique_count, cr, cc, step, branch>>
genVars == <<num_blocked, placed, entry_count, entry_blocked>>
createVars == <<blocked_list, blocked_count, create_i>>
vars == <<gridVars, pc, printed, solveVars, genVars, createVars, accessed>>

(* ------------------------------ the grid ------------------------------ *)

Cells(R, C) == (0 .. (R - 1)) \X (0 .. (C - 1))

AllCells == Cells(rows, cols)

Shapes == {s \in (1 .. MaxCells) \X (1 .. MaxCells) : s[1] * s[2] <= MaxCells}

\* the bounds test without its upper limits
InBoundsLowerOnly(r, c) == r >= 0 /\ c >= 0

\* the bounds test of lines 127, 147 and 153
InBounds(r, c) == r >= 0 /\ r < rows /\ c >= 0 /\ c < cols

\* a row vector whose second direction also moves down: a diagonal step
drDiagonal == <<-1, 1, 1, 0>>

\* direction vectors (up, right, down, left): the row part
dr == <<-1, 0, 1, 0>>

\* the column part
dc == <<0, 1, 0, -1>>

(* --------------------------- start-cell scan -------------------------- *)

RECURSIVE ScanRowNoBreak(_, _)
\* the inner loop without its break: the last free cell of the row wins
ScanRowNoBreak(i, j) ==
    IF j >= cols THEN <<-1, -1>>
    ELSE LET rest == ScanRowNoBreak(i, j + 1)
         IN  IF rest[1] >= 0 THEN rest
             ELSE IF <<i, j>> \notin blocked THEN <<i, j>> ELSE <<-1, -1>>

RECURSIVE ScanRow(_, _)
\* the inner loop over j of row i, from column j on: <<-1, -1>> if none is free
ScanRow(i, j) ==
    IF j >= cols THEN <<-1, -1>>
    ELSE IF <<i, j>> \notin blocked THEN <<i, j>>
    ELSE ScanRow(i, j + 1)

RECURSIVE ScanGridFromOrigin(_)
\* the scan with start_r, start_c initialised to 0 instead of -1
ScanGridFromOrigin(i) ==
    IF i >= rows THEN <<0, 0>>
    ELSE LET found == ScanRow(i, 0)
         IN  IF found[1] >= 0 THEN found ELSE ScanGridFromOrigin(i + 1)

RECURSIVE ScanGrid(_)
\* the outer loop over i, from row i on: <<start_r, start_c>>
ScanGrid(i) ==
    IF i >= rows THEN <<-1, -1>>
    ELSE LET found == ScanRow(i, 0)
         IN  IF found[1] >= 0 THEN found ELSE ScanGrid(i + 1)

(* ----------------------------- solve_path ----------------------------- *)

\* the sequence of cells held in path_r / path_c
Path == [k \in 1 .. pathLen |-> <<path_r[k], path_c[k]>>]

\* what a call writes to stdout: the "Path:" line and the count
Output(p, n) == [path |-> p, unique |-> n]

\* lines 96-102 without the initialising loop: the array holds what malloc
\* left, here fresh zero pages or a recycled block of nonzero bytes
VisitedUninitialised == {{}, AllCells}

\* the possible contents of visited after lines 96-102: every entry false
VisitedAfterAlloc == {{}}

\* a store to entry k (0-based) of an array malloc'ed with len entries; a store
\* outside the allocation is undefined: it lands in foreign memory or faults
StoreOutcomes(k, len) ==
    IF k >= 0 /\ k < len THEN {"stored"} ELSE {"overrun", "fault"}

\* the neighbour of the current cell in direction i
Nbr(i) == <<cr + dr[i], cc + dc[i]>>

\* line 128 without the blocked test
Tier1OkIgnoringBlocked(i) ==
    /\ InBounds(Nbr(i)[1], Nbr(i)[2])
    /\ Nbr(i) \notin visited

\* lines 125-128: direction i leads to an in-bounds, free, unvisited cell
Tier1Ok(i) ==
    /\ InBounds(Nbr(i)[1], Nbr(i)[2])
    /\ Nbr(i) \notin blocked
    /\ Nbr(i) \notin visited

\* the inner loop without the visited test of line 154
HasFreeNbr(n) ==
    \E j \in 1 .. 4 :
        /\ InBounds(n[1] + dr[j], n[2] + dc[j])
        /\ <<n[1] + dr[j], n[2] + dc[j]>> \notin blocked

\* the inner loop running over three directions only (j < 3)
HasUnvisitedNbrShort(n) ==
    \E j \in 1 .. 3 :
        /\ InBounds(n[1] + dr[j], n[2] + dc[j])
        /\ <<n[1] + dr[j], n[2] + dc[j]>> \notin blocked
        /\ <<n[1] + dr[j], n[2] + dc[j]>> \notin visited

\* lines 150-154: cell n has an in-bounds, free, unvisited neighbour
HasUnvisitedNbr(n) ==
    \E j \in 1 .. 4 :
        /\ InBounds(n[1] + dr[j], n[2] + dc[j])
        /\ <<n[1] + dr[j], n[2] + dc[j]>> \notin blocked
        /\ <<n[1] + dr[j], n[2] + dc[j]>> \notin visited

\* the second loop without the inner look at the neighbour's neighbours
Tier2OkAnyVisited(i) ==
    /\ InBounds(Nbr(i)[1], Nbr(i)[2])
    /\ Nbr(i) \notin blocked
    /\ Nbr(i) \in visited

\* lines 145-154: direction i leads to an in-bounds, free, visited cell that
\* has an in-bounds, free, unvisited neighbour
Tier2Ok(i) ==
    /\ InBounds(Nbr(i)[1], Nbr(i)[2])
    /\ Nbr(i) \notin blocked
    /\ Nbr(i) \in visited
    /\ HasUnvisitedNbr(Nbr(i))

\* a scan that keeps the last match instead of stopping at the first
LastDir(S) == CHOOSE i \in S : \A j \in S : i >= j

\* the for loops over i = 0..3 stop at the first match (break / !moved)
FirstDir(S) == CHOOSE i \in S : \A j \in S : i <= j

\* lines 124-128: the directions the first loop can take
Tier1Dirs == {i \in 1 .. 4 : Tier1Ok(i)}

\* the second loop running over three directions only (i < 3)
Tier2DirsShort == {i \in 1 .. 3 : Tier2Ok(i)}

\* lines 144-154: the directions the second loop can take
Tier2Dirs == {i \in 1 .. 4 : Tier2Ok(i)}

\* an index used without the bounds test in front of it
IndexedUnchecked(r, c) == {<<r, c>>}

\* lines 127-128, 147-148, 153-154: the array entry [r][c] is read (or
\* written) only behind the bounds test
Indexed(r, c) == IF InBounds(r, c) THEN {<<r, c>>} ELSE {}

\* line 148: the neighbour in direction i is in bounds, free and visited, so
\* the inner loop over its neighbours runs
Tier2Candidate(i) ==
    /\ InBounds(Nbr(i)[1], Nbr(i)[2])
    /\ Nbr(i) \notin blocked
    /\ Nbr(i) \in visited

\* lines 150-154: the last direction j the inner loop looks at around cell n:
\* the first one that leads to a free unvisited cell, or 4 if there is none
InnerLast(n) ==
    LET hits == {j \in 1 .. 4 :
                    /\ InBounds(n[1] + dr[j], n[2] + dc[j])
                    /\ <<n[1] + dr[j], n[2] + dc[j]>> \notin blocked
                    /\ <<n[1] + dr[j], n[2] + dc[j]>> \notin visited}
    IN  IF hits = {} THEN 4 ELSE FirstDir(hits)

\* lines 124-128: the entries the first loop indexes when it looks at the
\* directions 1 .. last
Tier1Accesses(last) ==
    UNION {Indexed(Nbr(i)[1], Nbr(i)[2]) : i \in 1 .. last}

\* lines 144-154: the entries the second loop indexes when it looks at the
\* directions 1 .. last
Tier2Accesses(last) ==
    UNION {Indexed(Nbr(i)[1], Nbr(i)[2]) \cup
           (IF Tier2Candidate(i)
            THEN UNION {Indexed(Nbr(i)[1] + dr[j], Nbr(i)[2] + dc[j]) :
                            j \in 1 .. InnerLast(Nbr(i))}
            ELSE {}) : i \in 1 .. last}

\* an off-by-one loop condition: step <= movement_points
LoopGuardInclusive == step <= movement_points

\* a loop that tests its condition after the first iteration (do ... while)
LoopGuardAtLeastOnce == step = 0 \/ step < movement_points

\* the loop condition of line 121
LoopGuard == step < movement_points

\* the locals of solve_path outside a call
SolveIdle ==
    /\ heap = {}
    /\ visited = {}
    /\ max_path_len = 0
    /\ path_r = <<>>
    /\ path_c = <<>>
    /\ pathLen = 0
    /\ unique_count = 0
    /\ cr = 0
    /\ cc = 0
    /\ step = 0
    /\ branch = "none"

\* every move counted as a new cell
CountAfterAnyMove(how) == unique_count + 1

\* line 136: only a Tier 1 move increments unique_count
CountAfter(how) == IF how = "tier1" THEN unique_count + 1 ELSE unique_count

\* lines 130-137 / 156-161: step onto cell n and record it in the path
MoveTo(n, how) ==
    /\ cr' = n[1]
    /\ cc' = n[2]
    /\ visited' = IF how = "tier1" THEN visited \cup {n} ELSE visited
    /\ \E o \in StoreOutcomes(pathLen, max_path_len) :
           IF o = "fault"
           THEN /\ pc' = "crashed"
                /\ UNCHANGED <<path_r, path_c, pathLen, unique_count, step>>
           ELSE /\ pc' = "loop"
                /\ path_r' = Append(path_r, n[1])
                /\ path_c' = Append(path_c, n[2])
                /\ pathLen' = pathLen + 1
                /\ unique_count' = CountAfter(how)
                /\ step' = step + 1
    /\ branch' = how
    /\ UNCHANGED <<printed, heap, movement_points, max_path_len, genVars>>

\* lines 77-114: the call, the start-cell scan, the early return of an
\* all-blocked grid, the allocations and the starting position
SolveCall(mp) ==
    /\ pc = "idle"
    /\ Len(printed) < MaxCalls
    /\ movement_points' = mp
    /\ LET start == ScanGrid(0)
       IN  IF start[1] < 0
           THEN /\ printed' = Append(printed, Output(<<>>, 0))
                /\ pc' = "idle"
                /\ UNCHANGED <<heap, visited, max_path_len, path_r, path_c, pathLen,
                               unique_count, cr, cc, step, branch>>
           ELSE /\ heap' = {"visited", "path_r", "path_c"}
                /\ max_path_len' = mp + 1
                /\ cr' = start[1]
                /\ cc' = start[2]
                /\ \E v \in VisitedAfterAlloc : visited' = v \cup {start}
                /\ \E o \in StoreOutcomes(0, mp + 1) :
                       IF o = "fault"
                       THEN /\ pc' = "crashed"
                            /\ UNCHANGED <<path_r, path_c, pathLen, unique_count>>
                       ELSE /\ pc' = "loop"
                            /\ path_r' = <<start[1]>>
                            /\ path_c' = <<start[2]>>
                            /\ pathLen' = 1
                            /\ unique_count' = 1
                /\ UNCHANGED <<printed, step, branch>>
    /\ UNCHANGED <<gridVars, genVars>>
    /\ accessed' = AllCells
    /\ UNCHANGED createVars

\* Tier 1 that marks the cell in g->blocked as well as in visited
SolveTier1Marking ==
    /\ pc = "loop"
    /\ LoopGuard
    /\ Tier1Dirs # {}
    /\ MoveTo(Nbr(FirstDir(Tier1Dirs)), "tier1")
    /\ blocked' = blocked \cup {Nbr(FirstDir(Tier1Dirs))}
    /\ UNCHANGED <<rows, cols>>
    /\ accessed' = Tier1Accesses(FirstDir(Tier1Dirs))
    /\ UNCHANGED createVars

\* lines 124-142: move to the first in-bounds, free, unvisited neighbour
SolveTier1 ==
    /\ pc = "loop"
    /\ LoopGuard
    /\ Tier1Dirs # {}
    /\ MoveTo(Nbr(FirstDir(Tier1Dirs)), "tier1")
    /\ UNCHANGED gridVars
    /\ accessed' = Tier1Accesses(FirstDir(Tier1Dirs))
    /\ UNCHANGED createVars

\* lines 143-168: no unvisited neighbour; move to the first visited neighbour
\* that has an unvisited neighbour
SolveTier2 ==
    /\ pc = "loop"
    /\ LoopGuard
    /\ Tier1Dirs = {}
    /\ Tier2Dirs # {}
    /\ MoveTo(Nbr(FirstDir(Tier2Dirs)), "tier2")
    /\ UNCHANGED gridVars
    /\ accessed' = Tier1Accesses(4) \cup Tier2Accesses(FirstDir(Tier2Dirs))
    /\ UNCHANGED createVars

\* lines 169-172: neither tier moved; break
SolveStop ==
    /\ pc = "loop"
    /\ LoopGuard
    /\ Tier1Dirs = {}
    /\ Tier2Dirs = {}
    /\ pc' = "done"
    /\ branch' = "stop"
    /\ UNCHANGED <<gridVars, printed, heap, movement_points, visited, max_path_len,
                   path_r, path_c, pathLen, unique_count, cr, cc, step, genVars>>
    /\ accessed' = Tier1Accesses(4) \cup Tier2Accesses(4)
    /\ UNCHANGED createVars

\* line 121: the loop condition fails
SolveExit ==
    /\ pc = "loop"
    /\ ~LoopGuard
    /\ pc' = "done"
    /\ UNCHANGED <<gridVars, printed, solveVars, genVars>>
    /\ accessed' = {}
    /\ UNCHANGED createVars

\* lines 175-189: print the path and the count, free the arrays, return
SolveReturn ==
    /\ pc = "done"
    /\ printed' = Append(printed, Output(Path, unique_count))
    /\ pc' = "idle"
    /\ heap' = {}
    /\ visited' = {}
    /\ max_path_len' = 0
    /\ path_r' = <<>>
    /\ path_c' = <<>>
    /\ pathLen' = 0
    /\ unique_count' = 0
    /\ cr' = 0
    /\ cc' = 0
    /\ step' = 0
    /\ branch' = "none"
    /\ UNCHANGED <<gridVars, movement_points, genVars>>
    /\ accessed' = {}
    /\ UNCHANGED createVars

\* the budget of a call: the caller repeats a call with the same arguments
CallBudgets == IF printed = <<>> THEN Budgets ELSE {movement_points}

(* --------------------------- generate_blocked ------------------------- *)

Min(a, b) == IF a < b THEN a ELSE b

\* the locals of generate_blocked outside a call
GenIdle ==
    /\ num_blocked = 0
    /\ placed = 0
    /\ entry_count = 0
    /\ entry_blocked = {}

\* generate_blocked without the clamp of line 208
GenCallNoClamp(n) ==
    /\ pc = "idle"
    /\ printed = <<>>
    /\ entry_count' = n
    /\ entry_blocked' = blocked
    /\ placed' = 0
    /\ LET already_blocked == Cardinality(blocked)
           total_cells == rows * cols
           available == total_cells - already_blocked
       IN  IF n <= 0 \/ available <= 0
           THEN /\ pc' = "gen_done"
                /\ num_blocked' = n
           ELSE /\ pc' = "gen"
                /\ num_blocked' = n
    /\ UNCHANGED <<gridVars, printed, solveVars>>
    /\ UNCHANGED <<createVars, accessed>>

\* lines 194-210: the early returns, the count of free cells and the clamp
GenCall(n) ==
    /\ pc = "idle"
    /\ printed = <<>>
    /\ entry_count' = n
    /\ entry_blocked' = blocked
    /\ placed' = 0
    /\ LET already_blocked == Cardinality(blocked)
           total_cells == rows * cols
           available == total_cells - already_blocked
       IN  IF n <= 0 \/ available <= 0
           THEN /\ pc' = "gen_done"
                /\ num_blocked' = n
           ELSE /\ pc' = "gen"
                /\ num_blocked' = Min(n, available)
    /\ UNCHANGED <<gridVars, printed, solveVars>>
    /\ UNCHANGED <<createVars, accessed>>

\* the loop condition with <=: one cell more than asked for
GenGuardInclusive == placed <= num_blocked

\* the loop condition of line 212
GenGuard == placed < num_blocked

\* lines 212-218: one iteration of the sampling loop with the sample (r, c)
GenSample(r, c) ==
    /\ pc = "gen"
    /\ GenGuard
    /\ IF <<r, c>> \in blocked
       THEN UNCHANGED <<blocked, placed>>
       ELSE /\ blocked' = blocked \cup {<<r, c>>}
            /\ placed' = placed + 1
    /\ UNCHANGED <<rows, cols, pc, printed, solveVars, num_blocked, entry_count,
                   entry_blocked>>
    /\ UNCHANGED <<createVars, accessed>>

\* line 212: the loop condition fails
GenExit ==
    /\ pc = "gen"
    /\ ~GenGuard
    /\ pc' = "gen_done"
    /\ UNCHANGED <<gridVars, printed, solveVars, genVars>>
    /\ UNCHANGED <<createVars, accessed>>

\* line 219 (and the returns of lines 194 and 206): back in the caller
GenReturn ==
    /\ pc = "gen_done"
    /\ pc' = "idle"
    /\ num_blocked' = 0
    /\ placed' = 0
    /\ entry_count' = 0
    /\ entry_blocked' = {}
    /\ UNCHANGED <<gridVars, printed, solveVars>>
    /\ UNCHANGED <<createVars, accessed>>

(* ----------------------------- create_grid ---------------------------- *)

\* the arguments of create_grid outside a call
CreateIdle ==
    /\ blocked_list = <<>>
    /\ blocked_count = 0
    /\ create_i = 0

\* the shapes create_grid is called with
CreateShapes ==
    {s \in (1 .. MaxCreateCells) \X (1 .. MaxCreateCells) : s[1] * s[2] <= MaxCreateCells}

\* the entries of a blocked_list: the cells of the grid and, for each of the
\* four comparisons of line 47, a coordinate pair that fails it
ListEntries(R, C) == Cells(R, C) \cup {<<-1, 0>>, <<R, 0>>, <<0, -1>>, <<0, C>>}

\* the blocked_list arguments: every sequence of up to MaxList entries
Lists(R, C) == UNION {[1 .. n -> ListEntries(R, C)] : n \in 0 .. MaxList}

\* the test with <= for the upper limits
MarkOkInclusive(r, c) == r >= 0 /\ r <= rows /\ c >= 0 /\ c <= cols

\* line 47: the entry is inside the grid
MarkOk(r, c) == r >= 0 /\ r < rows /\ c >= 0 /\ c < cols

\* lines 14-42: create_grid has allocated the grid and set every cell free;
\* it is about to enter the marking loop, with any blocked_list and any
\* blocked_count that does not read past the list
CreateInit ==
    /\ \E s \in CreateShapes :
           /\ rows = s[1]
           /\ cols = s[2]
           /\ blocked_list \in Lists(s[1], s[2])
    /\ blocked = {}
    /\ blocked_count \in 0 .. Len(blocked_list)
    /\ create_i = 0
    /\ pc = "create"
    /\ printed = <<>>
    /\ movement_points = 0
    /\ SolveIdle
    /\ GenIdle
    /\ accessed = {}

\* lines 44-50: one iteration of the marking loop
CreateMark ==
    /\ pc = "create"
    /\ create_i < blocked_count
    /\ LET r == blocked_list[create_i + 1][1]
           c == blocked_list[create_i + 1][2]
       IN  blocked' = IF MarkOk(r, c) THEN blocked \cup {<<r, c>>} ELSE blocked
    /\ create_i' = create_i + 1
    /\ UNCHANGED <<rows, cols, pc, printed, solveVars, genVars, blocked_list,
                   blocked_count, accessed>>

\* lines 44 and 51: the loop condition fails; return g
CreateReturn ==
    /\ pc = "create"
    /\ ~(create_i < blocked_count)
    /\ pc' = "created"
    /\ UNCHANGED <<gridVars, printed, solveVars, genVars, createVars, accessed>>

CreateNext ==
    \/ CreateMark
    \/ CreateReturn

CreateSpec == CreateInit /\ [][CreateNext]_vars

(* --------------------------- the specification ------------------------ *)

\* a grid as create_grid returns it: any shape, any set of blocked cells
Init ==
    /\ \E s \in Shapes :
           /\ rows = s[1]
           /\ cols = s[2]
           /\ blocked \in SUBSET Cells(s[1], s[2])
    /\ pc = "idle"
    /\ printed = <<>>
    /\ movement_points = 0
    /\ SolveIdle
    /\ GenIdle
    /\ CreateIdle
    /\ accessed = {}

Next ==
    \/ \E mp \in CallBudgets : SolveCall(mp)
    \/ SolveTier1
    \/ SolveTier2
    \/ SolveStop
    \/ SolveExit
    \/ SolveReturn
    \/ \E n \in Counts : GenCall(n)
    \/ \E r \in 0 .. (rows - 1), c \in 0 .. (cols - 1) : GenSample(r, c)
    \/ GenExit
    \/ GenReturn

Spec == Init /\ [][Next]_vars

\* an iteration of the sampling loop whose sample is a free cell
GenPlace ==
    \E r \in 0 .. (rows - 1), c \in 0 .. (cols - 1) :
        /\ <<r, c>> \notin blocked
        /\ GenSample(r, c)

\* generate_blocked alone, called any number of times on the grid
GenNext ==
    \/ \E n \in Counts : GenCall(n)
    \/ \E r \in 0 .. (rows - 1), c \in 0 .. (cols - 1) : GenSample(r, c)
    \/ GenExit
    \/ GenReturn

\* the sampling is fair: while a free cell can be sampled, one eventually is;
\* and the loop condition is eventually tested
GenFairSpec ==
    /\ Init
    /\ [][GenNext]_vars
    /\ WF_vars(GenPlace)
    /\ WF_vars(GenExit)

(* ------------------------------ properties ---------------------------- *)

Free == AllCells \ blocked

\* solve_path holds a path: after the starting position is set, until the return
InRun == pc \in {"loop", "done"}

\* cell is the first free cell in row-major order
IsFirstFree(cell) ==
    /\ cell \in Free
    /\ \A f \in Free : cell[1] < f[1] \/ (cell[1] = f[1] /\ cell[2] <= f[2])

Range(q) == {q[k] : k \in DOMAIN q}

Adjacent(a, b) ==
    \/ a[1] = b[1] /\ (a[2] = b[2] + 1 \/ b[2] = a[2] + 1)
    \/ a[2] = b[2] /\ (a[1] = b[1] + 1 \/ b[1] = a[1] + 1)

RECURSIVE Grow(_, _)
\* the free cells orthogonally connected to the cells of S, whose cells outside
\* frontier have no free neighbour outside S
Grow(S, frontier) ==
    LET more == {f \in Free \ S : \E x \in frontier : Adjacent(f, x)}
    IN  IF more = {} THEN S ELSE Grow(S \cup more, more)

\* the orthogonally connected free region of the first free cell
StartRegion ==
    LET first == {f \in Free : IsFirstFree(f)}
    IN  Grow(first, first)

\* C1: on a grid with a free cell, whatever the budget, the path of solve_path
\* is non-empty and its first element is the first free cell in row-major
\* order, during the run and in what the call reports.
C1_StartIsFirstFree ==
    Free # {} =>
        /\ InRun => pathLen >= 1 /\ IsFirstFree(Path[1])
        /\ \A k \in DOMAIN printed :
               /\ Len(printed[k].path) >= 1
               /\ IsFirstFree(printed[k].path[1])

\* a call has returned on a grid whose first free cell is neither in row 0
\* nor in column 0
C1_Witness ==
    \E k \in DOMAIN printed :
        /\ Len(printed[k].path) >= 2
        /\ printed[k].path[1][1] > 0
        /\ printed[k].path[1][2] > 0

\* C2: after the initialisation and after every loop step, unique_count is the
\* number of visited cells and the number of distinct cells of the path; the
\* reported count is the number of distinct cells of the reported path.
C2_UniqueCountExact ==
    /\ InRun =>
           /\ unique_count = Cardinality(visited)
           /\ unique_count = Cardinality(Range(Path))
    /\ \A k \in DOMAIN printed :
           printed[k].unique = Cardinality(Range(printed[k].path))

\* a run that has revisited a cell: the path is longer than the count
C2_Witness ==
    /\ pc = "done"
    /\ branch # "none"
    /\ pathLen > unique_count
    /\ unique_count >= 3

\* C3: for every movement_points value the path never holds more than
\* movement_points + 1 cells, and no store to path_r / path_c (the one of the
\* start cell at index 0 included) falls outside the allocated entries.
C3_PathWithinAllocation ==
    /\ pc # "crashed"
    /\ InRun => pathLen <= movement_points + 1

Max0(n) == IF n > 0 THEN n ELSE 0

\* the loop iterations run so far: the completed ones and the one that broke
Iterations == step + (IF branch = "stop" THEN 1 ELSE 0)

\* C4: the movement loop runs at most movement_points iterations (none for a
\* budget below 1); every step taken inside the loop either leaves the loop
\* or completes one iteration, and appends at most one cell to the path.
C4_LoopBounded ==
    /\ [](InRun => Iterations <= Max0(movement_points))
    /\ [][pc = "loop" =>
            /\ pathLen' <= pathLen + 1
            /\ \/ pc' # "loop"
               \/ step' = step + 1 /\ pathLen' = pathLen + 1]_vars

\* a run that used its whole budget of at least 4 steps
C4_Witness ==
    /\ pc = "done"
    /\ movement_points >= 4
    /\ step = movement_points
    /\ pathLen = movement_points + 1

\* C5: on a grid whose cells are all blocked, solve_path returns at once: it
\* never enters the loop, allocates nothing, takes no step, and reports the
\* empty path and the count 0.
C5_AllBlockedEmpty ==
    blocked = AllCells =>
        /\ pc \notin {"loop", "done", "crashed"}
        /\ heap = {}
        /\ visited = {}
        /\ pathLen = 0
        /\ unique_count = 0
        /\ \A k \in DOMAIN printed : printed[k] = Output(<<>>, 0)

\* a call with a positive budget has returned on an all-blocked grid of
\* several rows and columns
C5_Witness ==
    /\ blocked = AllCells
    /\ rows >= 2
    /\ cols >= 2
    /\ movement_points >= 1
    /\ Len(printed) >= 1

\* C6: on a grid with exactly one free cell and a budget N >= 0 the path is
\* that cell alone and the count is 1; with N >= 1 the loop ends in its first
\* iteration through the no-move branch.
C6_SingleFreeCell ==
    (Cardinality(Free) = 1 /\ movement_points >= 0) =>
        /\ pc # "crashed"
        /\ InRun =>
               /\ Range(Path) = Free
               /\ pathLen = 1
               /\ unique_count = 1
               /\ step = 0
        /\ (pc = "done" /\ movement_points >= 1) => branch = "stop"
        /\ \A k \in DOMAIN printed :
               /\ Len(printed[k].path) = 1
               /\ printed[k].path[1] \in Free
               /\ printed[k].unique = 1

\* a run on a grid of several cells, one of them free, has stopped in its
\* first iteration with budget left
C6_Witness ==
    /\ Cardinality(Free) = 1
    /\ rows * cols >= 4
    /\ pc = "done"
    /\ movement_points >= 2
    /\ branch = "stop"

\* a path of cells that are in the grid, free and in the region
PathInRegion(q, region) == Range(q) \subseteq (AllCells \cap Free \cap region)

\* the 3 x 3 grid with row 1 blocked
IsTest3Grid == rows = 3 /\ cols = 3 /\ blocked = {<<1, 0>>, <<1, 1>>, <<1, 2>>}

\* C7: every cell of the path is in bounds, free and in the orthogonally
\* connected free region of the start cell, so unique_count is at most the
\* size of that region; on the 3 x 3 grid with row 1 blocked and budget 5
\* unique_count <= 3 and no path cell lies in row 1.
C7_PathStaysInRegion ==
    (InRun \/ printed # <<>>) =>
        LET region == StartRegion
        IN  /\ InRun =>
                   /\ PathInRegion(Path, region)
                   /\ unique_count <= Cardinality(region)
            /\ \A k \in DOMAIN printed :
                   /\ PathInRegion(printed[k].path, region)
                   /\ printed[k].unique <= Cardinality(region)
            /\ (IsTest3Grid /\ movement_points = 5) =>
                   /\ InRun =>
                          /\ unique_count <= 3
                          /\ \A k \in 1 .. pathLen : path_r[k] # 1
                   /\ \A k \in DOMAIN printed :
                          /\ printed[k].unique <= 3
                          /\ \A m \in DOMAIN printed[k].path :
                                 printed[k].path[m][1] # 1

\* the run on the 3 x 3 grid with row 1 blocked and budget 5 has returned,
\* having visited the three cells of row 0
C7_Witness ==
    /\ IsTest3Grid
    /\ movement_points = 5
    /\ Len(printed) >= 1
    /\ printed[1].unique = 3

\* C8: two calls on the same grid with the same movement_points report the
\* same path and the same count.
C8_Deterministic ==
    \A i, j \in DOMAIN printed : printed[i] = printed[j]

\* two calls have returned, each after a path with a revisit
C8_Witness ==
    /\ Len(printed) >= 2
    /\ Len(printed[2].path) > printed[2].unique
    /\ printed[2].unique >= 3

GenPcs == {"gen", "gen_done"}

\* C9: no step of solve_path (the call, a loop iteration, the return) changes
\* the grid's rows, cols or blocked cells.
C9_GridUnchanged ==
    [][(pc \notin GenPcs /\ pc' \notin GenPcs) =>
           (rows' = rows /\ cols' = cols /\ blocked' = blocked)]_vars

\* a run that has made at least three moves
C9_Witness ==
    /\ pc = "done"
    /\ pathLen >= 4
    /\ blocked # {}

\* the cells generate_blocked has blocked since it was called
NewlyBlocked == blocked \ entry_blocked

\* the free cells at the call of generate_blocked
EntryAvailable == rows * cols - Cardinality(entry_blocked)

\* C10: generate_blocked newly blocks at most min(requested, rows * cols -
\* already_blocked) cells, every cell blocked before the call stays blocked,
\* placed counts exactly the newly blocked cells, and the grid is unchanged
\* when the requested count is <= 0 or no cell is free.
C10_GenerateBounded ==
    pc \in GenPcs =>
        /\ entry_blocked \subseteq blocked
        /\ blocked \subseteq AllCells
        /\ placed = Cardinality(NewlyBlocked)
        /\ entry_count > 0 =>
               Cardinality(NewlyBlocked) <= Min(entry_count, EntryAvailable)
        /\ (entry_count <= 0 \/ EntryAvailable = 0) => blocked = entry_blocked

\* generate_blocked has finished a call that asked for more cells than were
\* free, on a grid that had blocked and free cells
C10_Witness ==
    /\ pc = "gen_done"
    /\ entry_count > EntryAvailable
    /\ EntryAvailable >= 1
    /\ entry_blocked # {}
    /\ placed = EntryAvailable

\* the cells named by the first n entries of blocked_list
Listed(n) == {blocked_list[k] : k \in 1 .. n}

\* C11: after create_grid a cell of the grid is blocked if and only if it is
\* among the first blocked_count entries of blocked_list; entries outside the
\* grid change no cell and raise no error, and a repeated entry has the
\* effect of one.  During the loop the same holds of the entries read so far.
C11_BlockedIffListed ==
    /\ pc \in {"create", "created"}
    /\ blocked = Listed(create_i) \cap AllCells
    /\ pc = "created" =>
           /\ create_i = blocked_count
           /\ \A cell \in AllCells :
                  cell \in blocked <=> \E k \in 1 .. blocked_count : blocked_list[k] = cell
           /\ Cardinality(blocked) <= blocked_count

\* create_grid has returned for a list of three entries: a cell of the grid,
\* an entry outside the grid, and the first cell again
C11_Witness ==
    /\ pc = "created"
    /\ blocked_count = 3
    /\ blocked_list[1] \in AllCells
    /\ blocked_list[2] \notin AllCells
    /\ blocked_list[3] = blocked_list[1]
    /\ rows * cols >= 2

\* the current position
Here == <<cr, cc>>

\* the four orthogonal neighbours of cell n in the order up, right, down, left
Around(n) == << <<n[1] - 1, n[2]>>, <<n[1], n[2] + 1>>, <<n[1] + 1, n[2]>>, <<n[1], n[2] - 1>> >>

\* cell c is in the grid, free and not yet visited
Explorable(c) == c \in Free /\ c \notin visited

\* cell c is in the grid, free, visited, and has an explorable neighbour
Repositionable(c) ==
    /\ c \in Free
    /\ c \in visited
    /\ \E k \in 1 .. 4 : Explorable(Around(c)[k])

CanExplore == \E k \in 1 .. 4 : Explorable(Around(Here)[k])
CanReposition == \E k \in 1 .. 4 : Repositionable(Around(Here)[k])

\* the first neighbour of n, in the order up, right, down, left, that has P
FirstAround(n, P(_)) ==
    LET ks == {k \in 1 .. 4 : P(Around(n)[k])}
    IN  Around(n)[CHOOSE k \in ks : \A m \in ks : k <= m]

\* the step appends cell t to the path and makes it the current position
Appends(t) ==
    /\ cr' = t[1]
    /\ cc' = t[2]
    /\ path_r' = Append(path_r, t[1])
    /\ path_c' = Append(path_c, t[2])
    /\ pathLen' = pathLen + 1

\* C12: with movement_points = 0 on a grid with a free cell no step is taken:
\* the path is the start cell alone and unique_count is 1, during the run and
\* in the output; with no free cell the output is the empty path and 0.
C12_ZeroBudget ==
    movement_points = 0 =>
        /\ pc # "crashed"
        /\ InRun =>
               /\ pathLen = 1
               /\ IsFirstFree(Path[1])
               /\ Here = Path[1]
               /\ unique_count = 1
               /\ visited = {Path[1]}
               /\ step = 0
               /\ branch = "none"
        /\ \A k \in DOMAIN printed :
               IF Free = {}
               THEN printed[k] = Output(<<>>, 0)
               ELSE /\ Len(printed[k].path) = 1
                    /\ IsFirstFree(printed[k].path[1])
                    /\ printed[k].unique = 1

\* a call with movement_points = 0 has returned on a grid where the start
\* cell has a free neighbour
C12_Witness ==
    /\ movement_points = 0
    /\ Len(printed) >= 1
    /\ Len(printed[1].path) = 1
    /\ \E f \in Free : Adjacent(f, printed[1].path[1])

\* C13: in a loop iteration where the current cell has an in-bounds, free,
\* unvisited neighbour, the planner moves to the first such neighbour in the
\* order up, right, down, left, appends it to the path, marks it visited and
\* increases unique_count by exactly 1.
C13_Tier1FirstFit ==
    [][(pc = "loop" /\ step < movement_points /\ CanExplore) =>
           LET t == FirstAround(Here, Explorable)
           IN  /\ Appends(t)
               /\ visited' = visited \cup {t}
               /\ unique_count' = unique_count + 1
               /\ step' = step + 1
               /\ pc' = "loop"]_vars

\* a Tier 1 move has been made from a cell that had another explorable
\* neighbour, which is still unvisited
C13_Witness ==
    /\ pc = "loop"
    /\ branch = "tier1"
    /\ pathLen >= 3
    /\ \E f \in Free \ visited : Adjacent(f, Path[pathLen - 1])

\* C14: Tier 2 is taken only when the current cell has no explorable
\* neighbour; it moves to the first neighbour, in the order up, right, down,
\* left, that is in bounds, free, visited and has an explorable neighbour of
\* its own; the move appends that cell (already in the path) and uses one
\* step, and leaves visited and unique_count unchanged.
C14_Tier2Reposition ==
    [][pc = "loop" =>
           /\ (step < movement_points /\ ~CanExplore /\ CanReposition) =>
                  LET t == FirstAround(Here, Repositionable)
                  IN  /\ Appends(t)
                      /\ t \in Range(Path)
                      /\ step' = step + 1
                      /\ visited' = visited
                      /\ unique_count' = unique_count
           /\ (pathLen' = pathLen + 1 /\ unique_count' = unique_count) =>
                  /\ ~CanExplore
                  /\ Repositionable(<<cr', cc'>>)]_vars

\* a Tier 2 move has just been made and budget remains
C14_Witness ==
    /\ pc = "loop"
    /\ branch = "tier2"
    /\ step < movement_points
    /\ pathLen = unique_count + 1

\* neither tier has a move at the current cell
Stuck == ~CanExplore /\ ~CanReposition

\* C15 as stated: the planner has stopped with budget left if and only if the
\* final current cell has no explorable neighbour and no visited free
\* neighbour with an explorable neighbour.
C15_EarlyStopIffStuck ==
    pc = "done" => ((pathLen < movement_points + 1) <=> Stuck)

\* C15 amended: the planner has stopped with budget left if and only if it
\* began an iteration (step < movement_points) at a final current cell where
\* neither tier has a move; every iteration begun at a cell where neither
\* tier has a move stops without changing the path or the position, and every
\* other iteration makes a move and appends exactly one cell.
C15_EarlyStopWhenStuck ==
    /\ [](pc = "done" =>
            /\ pathLen < movement_points + 1 => Stuck /\ step < movement_points
            /\ (Stuck /\ step < movement_points) => pathLen < movement_points + 1)
    /\ [][(pc = "loop" /\ step < movement_points) =>
            IF Stuck
            THEN /\ pc' = "done"
                 /\ pathLen' = pathLen
                 /\ path_r' = path_r
                 /\ path_c' = path_c
                 /\ cr' = cr
                 /\ cc' = cc
            ELSE /\ pc' = "loop"
                 /\ pathLen' = pathLen + 1
                 /\ Len(path_r') = Len(path_r) + 1
                 /\ Len(path_c') = Len(path_c) + 1]_vars

\* a run has stopped with budget left after at least three moves
C15_Witness ==
    /\ pc = "done"
    /\ pathLen >= 4
    /\ pathLen < movement_points + 1

\* the cells of the start cell's region that the run has not visited
Missed == StartRegion \ visited

\* C16: the planner can stop with budget left while a free cell connected to
\* the start cell is unvisited (the witness is such a run); whenever it does,
\* every such cell lies beyond the one-step lookahead: it is adjacent neither
\* to the current cell nor to a visited free neighbour of the current cell.
C16_MissesOnlyBeyondLookahead ==
    (pc = "done" /\ pathLen < movement_points + 1) =>
        \A m \in Missed :
            /\ ~Adjacent(m, Here)
            /\ \A v \in Free \cap visited : Adjacent(v, Here) => ~Adjacent(m, v)

\* a run has stopped with budget left and a free cell connected to the start
\* cell is still unvisited
C16_Witness ==
    /\ pc = "done"
    /\ pathLen < movement_points + 1
    /\ Missed # {}

\* C17: a call of generate_blocked with count > 0 on a grid with a free cell
\* terminates when the sampling is fair; when it has, exactly min(count, cells
\* free before the call) cells are newly blocked, so a count at or above the
\* number of free cells leaves every cell blocked; and while placed is below
\* the target a free cell exists.
C17_GenerateTerminates ==
    /\ (pc = "gen") ~> (pc = "gen_done")
    /\ [](pc = "gen" => entry_count > 0 /\ EntryAvailable > 0)
    /\ []((pc = "gen_done" /\ entry_count > 0 /\ EntryAvailable > 0) =>
             /\ Cardinality(NewlyBlocked) = Min(entry_count, EntryAvailable)
             /\ entry_count >= EntryAvailable => blocked = AllCells)
    /\ []((pc = "gen" /\ placed < num_blocked) => Free # {})

\* a call that asked for at least as many cells as were free, on a grid with
\* two or more free cells, has finished with every cell blocked
C17_Witness ==
    /\ pc = "gen_done"
    /\ EntryAvailable >= 2
    /\ entry_count >= EntryAvailable
    /\ blocked = AllCells

\* C18: every coordinate solve_path uses as an index into g->blocked or
\* visited, in the start-cell scan, in both tiers and in Tier 2's inner scan,
\* lies inside [0, rows) x [0, cols).
C18_AccessesInBounds ==
    \A a \in accessed : a[1] >= 0 /\ a[1] < rows /\ a[2] >= 0 /\ a[2] < cols

\* an iteration at a corner of a grid with several rows and columns has run
\* both loops and the inner scan, and has looked at cells of the grid
C18_Witness ==
    /\ pc = "loop"
    /\ branch = "tier2"
    /\ rows >= 2
    /\ cols >= 2
    /\ path_r[pathLen - 1] = 0
    /\ path_c[pathLen - 1] = cols - 1
    /\ Cardinality(accessed) >= 3

\* C19: a Tier 2 move (a move that leaves unique_count unchanged) is never
\* the first move and is never followed by another Tier 2 move: the cell it
\* reaches has an explorable neighbour, and the next iteration, if there is
\* one, visits a new cell.  So len(path) <= 2 * unique_count - 1 throughout.
C19_NoTwoRepositions ==
    /\ [](InRun => pathLen <= 2 * unique_count - 1)
    /\ [][pc = "loop" =>
            /\ (pathLen' = pathLen + 1 /\ unique_count' = unique_count) =>
                   /\ pathLen >= 2
                   /\ branch = "tier1"
                   /\ \E k \in 1 .. 4 : Around(<<cr', cc'>>)[k] \in Free \ visited'
            /\ (branch = "tier2" /\ step < movement_points) =>
                   /\ pc' = "loop"
                   /\ unique_count' = unique_count + 1
                   /\ branch' = "tier1"]_vars

\* a Tier 2 move has been followed by a Tier 1 move
C19_Witness ==
    /\ pc = "loop"
    /\ branch = "tier1"
    /\ pathLen = unique_count + 1

\* C20: consecutive path entries are orthogonally adjacent cells (they differ
\* by exactly 1 in exactly one coordinate), in the run and in the output; the
\* current position is the last path entry and is visited.
C20_PathStepsAdjacent ==
    /\ InRun =>
           /\ \A k \in 1 .. (pathLen - 1) :
                  \/ /\ path_r[k + 1] = path_r[k]
                     /\ path_c[k + 1] - path_c[k] \in {-1, 1}
                  \/ /\ path_c[k + 1] = path_c[k]
                     /\ path_r[k + 1] - path_r[k] \in {-1, 1}
           /\ Len(path_r) = pathLen
           /\ Len(path_c) = pathLen
           /\ cr = path_r[pathLen]
           /\ cc = path_c[pathLen]
           /\ <<cr, cc>> \in visited
    /\ \A n \in DOMAIN printed :
           \A k \in 1 .. (Len(printed[n].path) - 1) :
               Adjacent(printed[n].path[k], printed[n].path[k + 1])

\* a run has moved in all four directions
C20_Witness ==
    /\ InRun
    /\ \E k \in 1 .. (pathLen - 1) : path_r[k + 1] = path_r[k] - 1
    /\ \E k \in 1 .. (pathLen - 1) : path_r[k + 1] = path_r[k] + 1
    /\ \E k \in 1 .. (pathLen - 1) : path_c[k + 1] = path_c[k] - 1
    /\ \E k \in 1 .. (pathLen - 1) : path_c[k + 1] = path_c[k] + 1

====
